---- MODULE Spec2Model ----
(***************************************************************************)
(* Model of docker-machine-driver-ovh (src/main.go): the OVH Cloud API     *)
(* facade (type API) and the machine driver (type Driver).                 *)
(*                                                                         *)
(* The remote OVH API is the environment: every HTTP exchange is a response *)
(* record [code, body] handed to the API method that issues it.  code 200  *)
(* is success, 404 the API's "not found" and 500 any other error.  On a   *)
(* failed exchange go-ovh leaves the result value untouched (nil).         *)
(***************************************************************************)
EXTENDS Integers, Sequences, FiniteSets, TLC

VARIABLES
    d,        \* the Driver struct (its fields, BaseDriver's included)
    pc,       \* where the driver is: "new", "idle", "polling" inside Create's
              \* wait, "returned" from it; "lookup" when only a lookup is run
    remote,   \* what exists on the OVH side: ssh keys, instances, id counters
    op,       \* the lifecycle operation last run: name, error, calls issued, value
    wait,     \* waitForInstanceStatus' loop: attempt counter, closure variable
    hist,     \* history of the run: what has succeeded so far
    lk        \* input and output of a stand-alone name-or-id lookup

vars == <<d, pc, remote, op, wait, hist, lk>>

----------------------------------------------------------------------------
(* Bounds of the model *)

\* PreCreateCheck is run while NetworkIDs holds at most this many ids
MaxNetworkIDs == 2
\* Create is run while it leaves at most this many keys created for the driver
MaxKeys == 1
\* longest catalog handed to a stand-alone lookup
MaxCatalog == 2

(* Program constants *)

statusTimeout == 200
DockerPort == "2376"
DefaultBillingPeriod == "hourly"

----------------------------------------------------------------------------
(* Values *)

\* a nil pointer / absent value
Nil == [nil |-> TRUE]

\* error values: kind "nil" is Go's nil error; alts are the alternatives an
\* error message lists
NoErr == [kind |-> "nil", alts |-> <<>>]
Err(kind) == [kind |-> kind, alts |-> <<>>]
ErrAlts(kind, alts) == [kind |-> kind, alts |-> alts]

\* HTTP exchanges
OK(body) == [code |-> 200, body |-> body]
Fail(code) == [code |-> code, body |-> Nil]
IsOK(resp) == resp.code = 200
\* the error client.Get/Post/Delete returns for an exchange
HttpErr(resp) == IF IsOK(resp) THEN NoErr ELSE Err("RemoteError")

\* index of the first element of seq satisfying P, 0 when none does
FirstIdx(seq, P(_)) ==
    LET S == {i \in 1..Len(seq) : P(seq[i])}
    IN  IF S = {} THEN 0 ELSE CHOOSE i \in S : \A j \in S : i <= j

\* strings.HasPrefix
HasPrefix(s, prefix) ==
    Len(s) >= Len(prefix) /\ SubSeq(s, 1, Len(prefix)) = prefix

\* strings.Replace(s, ".", "_", -1)
RECURSIVE ReplaceDots(_)
ReplaceDots(s) ==
    IF Len(s) = 0 THEN ""
    ELSE (IF SubSeq(s, 1, 1) = "." THEN "_" ELSE SubSeq(s, 1, 1))
         \o ReplaceDots(SubSeq(s, 2, Len(s)))

sanitizeKeyPairName(s) == ReplaceDots(s)

\* fmt.Sprintf("%d", n) for n >= 0
Digits == <<"0", "1", "2", "3", "4", "5", "6", "7", "8", "9">>
RECURSIVE Itoa(_)
Itoa(n) == IF n < 10 THEN Digits[n + 1] ELSE Itoa(n \div 10) \o Digits[(n % 10) + 1]

----------------------------------------------------------------------------
(* The API facade: one operator per method of type API.  Each takes the     *)
(* HTTP exchange(s) it triggers and yields [val, err, calls]: the value and *)
(* error it returns and the remote calls it issued, in order.               *)

\* a remote call as logged: method, argument, HTTP code of the answer
Call(name, arg, code) == <<name, arg, code>>
Ret(val, err, calls) == [val |-> val, err |-> err, calls |-> calls]

GetProjects(resp) ==
    Ret(IF IsOK(resp) THEN resp.body ELSE <<>>, HttpErr(resp),
        <<Call("GetProjects", "", resp.code)>>)

GetProject(resp, projectID) ==
    Ret(IF IsOK(resp) THEN resp.body ELSE Nil, HttpErr(resp),
        <<Call("GetProject", projectID, resp.code)>>)

\* the second loop of GetProjectByName, from index i on
RECURSIVE ScanProjects(_, _, _, _, _)
ScanProjects(projects, i, projResp, projectName, calls) ==
    IF i > Len(projects)
    THEN Ret(Nil, Err("NotFound"), calls)
    ELSE LET r == GetProject(projResp[projects[i]], projects[i])
         IN  IF r.err # NoErr THEN Ret(Nil, r.err, calls \o r.calls)
             ELSE IF r.val.Name = projectName THEN Ret(r.val, NoErr, calls \o r.calls)
             ELSE ScanProjects(projects, i + 1, projResp, projectName, calls \o r.calls)

\* the project lookup with the id pass removed
GetProjectByNameNoIdPass(listResp, projResp, projectName) ==
    LET l == GetProjects(listResp)
    IN  IF l.err # NoErr THEN Ret(Nil, l.err, l.calls)
        ELSE ScanProjects(l.val, 1, projResp, projectName, l.calls)

\* listResp: the exchange of GetProjects; projResp[id]: that of GetProject(id)
GetProjectByName(listResp, projResp, projectName) ==
    LET l == GetProjects(listResp)
    IN  IF l.err # NoErr THEN Ret(Nil, l.err, l.calls)
        ELSE IF \E i \in 1..Len(l.val) : l.val[i] = projectName
        THEN LET r == GetProject(projResp[projectName], projectName)
             IN  Ret(r.val, r.err, l.calls \o r.calls)
        ELSE ScanProjects(l.val, 1, projResp, projectName, l.calls)

GetNetworks(resp, privateNet) ==
    Ret(IF IsOK(resp) THEN resp.body ELSE <<>>, HttpErr(resp),
        <<Call("GetNetworks", IF privateNet THEN "private" ELSE "public", resp.code)>>)

\* networks[0] of an empty list is an index-out-of-range panic
GetPublicNetworkID(resp) ==
    LET l == GetNetworks(resp, FALSE)
    IN  IF l.err # NoErr THEN Ret("", l.err, l.calls)
        ELSE IF Len(l.val) = 0 THEN Ret("", Err("panic"), l.calls)
        ELSE Ret(l.val[1].ID, NoErr, l.calls)

NetworkMatches(network, networkName) ==
    Itoa(network.VlanID) = networkName \/ network.Name = networkName

\* the private network lookup whose error names no network
GetPrivateNetworkByNameNoAlts(resp, networkName) ==
    LET l == GetNetworks(resp, TRUE)
        i == FirstIdx(l.val, LAMBDA n : NetworkMatches(n, networkName))
    IN  IF l.err # NoErr THEN Ret(Nil, l.err, l.calls)
        ELSE IF i # 0 THEN Ret(l.val[i], NoErr, l.calls)
        ELSE Ret(Nil, Err("NotFound"), l.calls)

GetPrivateNetworkByName(resp, networkName) ==
    LET l == GetNetworks(resp, TRUE)
        i == FirstIdx(l.val, LAMBDA n : NetworkMatches(n, networkName))
    IN  IF l.err # NoErr THEN Ret(Nil, l.err, l.calls)
        ELSE IF i # 0 THEN Ret(l.val[i], NoErr, l.calls)
        ELSE Ret(Nil, ErrAlts("NotFound", [k \in 1..Len(l.val) |-> l.val[k].Name]),
                 l.calls)

GetRegions(resp) ==
    Ret(IF IsOK(resp) THEN resp.body ELSE <<>>, HttpErr(resp),
        <<Call("GetRegions", "", resp.code)>>)

GetFlavors(resp) ==
    Ret(IF IsOK(resp) THEN resp.body ELSE <<>>, HttpErr(resp),
        <<Call("GetFlavors", "", resp.code)>>)

\* the loop condition shared by the flavor and image lookups
LinuxMatches(e, name) == e.OS = "linux" /\ (e.ID = name \/ e.Name = name)

GetFlavorByName(resp, flavorName) ==
    LET l == GetFlavors(resp)
        i == FirstIdx(l.val, LAMBDA f : LinuxMatches(f, flavorName))
    IN  IF l.err # NoErr THEN Ret(Nil, l.err, l.calls)
        ELSE IF i # 0 THEN Ret(l.val[i], NoErr, l.calls)
        ELSE Ret(Nil, Err("NotFound"), l.calls)

GetImages(resp) ==
    Ret(IF IsOK(resp) THEN resp.body ELSE <<>>, HttpErr(resp),
        <<Call("GetImages", "", resp.code)>>)

GetImageByName(resp, imageName) ==
    LET l == GetImages(resp)
        i == FirstIdx(l.val, LAMBDA im : LinuxMatches(im, imageName))
    IN  IF l.err # NoErr THEN Ret(Nil, l.err, l.calls)
        ELSE IF i # 0 THEN Ret(l.val[i], NoErr, l.calls)
        ELSE Ret(Nil, Err("NotFound"), l.calls)

GetSshkeys(resp) ==
    Ret(IF IsOK(resp) THEN resp.body ELSE <<>>, HttpErr(resp),
        <<Call("GetSshkeys", "", resp.code)>>)

SshkeyMatches(k, sshKeyName) == k.ID = sshKeyName \/ k.Name = sshKeyName

GetSshkeyByName(resp, sshKeyName) ==
    LET l == GetSshkeys(resp)
        i == FirstIdx(l.val, LAMBDA k : SshkeyMatches(k, sshKeyName))
    IN  IF l.err # NoErr THEN Ret(Nil, l.err, l.calls)
        ELSE IF i # 0 THEN Ret(l.val[i], NoErr, l.calls)
        ELSE Ret(Nil, Err("NotFound"), l.calls)

CreateSshkey(resp, name) ==
    Ret(IF IsOK(resp) THEN resp.body ELSE Nil, HttpErr(resp),
        <<Call("CreateSshkey", name, resp.code)>>)

\* a DELETE whose 404 is returned like any failure
DeleteErrNo404(resp) == HttpErr(resp)

\* a DELETE answered 404 is a success; any other failure is returned
DeleteErr(resp) ==
    IF resp.code = 404 THEN NoErr ELSE HttpErr(resp)

DeleteSshkey(resp, keyID) ==
    Ret(Nil, DeleteErr(resp), <<Call("DeleteSshkey", keyID, resp.code)>>)

\* the request body CreateInstance posts
InstanceReq(name, pubkeyID, flavorID, ImageID, region, networkIDs, monthlyBilling) ==
    [Name |-> name, SshkeyID |-> pubkeyID, FlavorID |-> flavorID,
     ImageID |-> ImageID, Region |-> region, MonthlyBilling |-> monthlyBilling,
     NetworkParams |-> [i \in 1..Len(networkIDs) |-> [ID |-> networkIDs[i]]]]

CreateInstance(resp, req) ==
    Ret(IF IsOK(resp) THEN resp.body ELSE Nil, HttpErr(resp),
        <<Call("CreateInstance", req, resp.code)>>)

RebootInstance(resp, instanceID, hard) ==
    Ret(Nil, HttpErr(resp),
        <<Call("RebootInstance", <<instanceID, IF hard THEN "hard" ELSE "soft">>, resp.code)>>)

DeleteInstance(resp, instanceID) ==
    Ret(Nil, DeleteErr(resp), <<Call("DeleteInstance", instanceID, resp.code)>>)

\* the error of the exchange is dropped: the method always returns a nil error
GetInstance(resp, instanceID) ==
    Ret(IF IsOK(resp) THEN resp.body ELSE Nil, NoErr,
        <<Call("GetInstance", instanceID, resp.code)>>)

----------------------------------------------------------------------------
(* The OVH side, as the driver sees it *)

ProjectCatalog ==
    <<[ID |-> "pr-1", Name |-> "acme"], [ID |-> "pr-2", Name |-> "beta"]>>
RegionCatalog == <<"GRA1", "SBG1">>
FlavorCatalog ==
    <<[ID |-> "f-1", Name |-> "b2-7", OS |-> "windows"],
      [ID |-> "f-9", Name |-> "b2-7", OS |-> "linux"]>>
ImageCatalog == <<[ID |-> "im-4", Name |-> "Ubuntu 20.04", OS |-> "linux"]>>
PrivateNetworkCatalog == <<[ID |-> "pn-1", Name |-> "priv", VlanID |-> 42]>>
PublicNetworkCatalog == <<[ID |-> "pub-1", Name |-> "Ext-Net", VlanID |-> 0]>>
\* ssh keys uploaded by someone else before the driver ran
PreexistingKeys ==
    <<[ID |-> "k-1", Name |-> "ops"], [ID |-> "k-2", Name |-> "web-s"]>>

\* the project lists an account can have: none, one, several
ProjectLists == {SubSeq(ProjectCatalog, 1, n) : n \in 0..Len(ProjectCatalog)}

SeqRange(seq) == {seq[i] : i \in 1..Len(seq)}
\* pl: the projects of the account when it is asked
ProjectIds(pl) == [i \in 1..Len(pl) |-> pl[i].ID]
ProjectById(pl, id) == pl[CHOOSE i \in 1..Len(pl) : pl[i].ID = id]

\* The exchange of one call of the project-scoped API: it fails when the
\* environment makes this call fail (name \in F), answers 404 for a project
\* that does not exist, and otherwise carries body.
Exch(F, name, projectID, body) ==
    IF name \in F THEN Fail(500)
    ELSE IF projectID \notin SeqRange(ProjectIds(ProjectCatalog)) THEN Fail(404)
    ELSE OK(body)

ExchProjects(pl, F) ==
    IF "GetProjects" \in F THEN Fail(500) ELSE OK(ProjectIds(pl))
ExchProject(pl, F) ==
    [id \in SeqRange(ProjectIds(pl)) |->
        IF "GetProject" \in F THEN Fail(500) ELSE OK(ProjectById(pl, id))]

\* the calls PreCreateCheck can issue, any one of which the environment may fail
ValidateCalls ==
    {"GetProjects", "GetProject", "GetRegions", "GetFlavors", "GetImages",
     "GetNetworksPrivate", "GetNetworksPublic", "EmptyPublicNetworks"}

----------------------------------------------------------------------------
(* The driver.  A lifecycle method is an operator from the Driver struct    *)
(* and the environment's answers to a context [d, err, calls, done]: the    *)
(* struct as the method leaves it, the error it returns, the remote calls   *)
(* it issued, and whether it has returned.                                  *)

Ctx(dr) == [d |-> dr, err |-> NoErr, calls |-> <<>>, done |-> FALSE]
\* return err
Return(c, err) == [c EXCEPT !.err = err, !.done = TRUE]
\* the calls of an API method join the log
Called(c, r) == [c EXCEPT !.calls = c.calls \o r.calls]

\* getClient: the API client is built on first use and kept
getClient(c, clientOK) ==
    IF c.d.client THEN c
    ELSE IF ~clientOK THEN Return(c, Err("ClientError"))
    ELSE [c EXCEPT !.d.client = TRUE]

\* a billing check that ignores the case of the first letter
BillingPeriodValidLoose(period) ==
    period \in {"monthly", "hourly", "Monthly", "Hourly"}

BillingPeriodValid(period) == ~(period # "monthly" /\ period # "hourly")

ValidateBilling(c) ==
    IF c.done THEN c
    ELSE IF ~BillingPeriodValid(c.d.BillingPeriod) THEN Return(c, Err("InvalidBillingPeriod"))
    ELSE c

\* the error message's list of project names: the id stands in for a project
\* whose fetch failed
ProjectNamesFor(pl, F, projects) ==
    [i \in 1..Len(projects) |->
        LET r == GetProject(ExchProject(pl, F)[projects[i]], projects[i])
        IN  IF r.err # NoErr THEN projects[i] ELSE r.val.Name]
ProjectNameCalls(pl, F, projects) ==
    [i \in 1..Len(projects) |->
        GetProject(ExchProject(pl, F)[projects[i]], projects[i]).calls[1]]

ValidateProject(c, pl, F) ==
    IF c.done THEN c
    ELSE IF c.d.ProjectName # ""
    THEN LET r == GetProjectByName(ExchProjects(pl, F), ExchProject(pl, F),
                                   c.d.ProjectName)
         IN  IF r.err # NoErr THEN Return(Called(c, r), r.err)
             ELSE [Called(c, r) EXCEPT !.d.ProjectID = r.val.ID]
    ELSE LET r == GetProjects(ExchProjects(pl, F))
             c1 == Called(c, r)
         IN  IF r.err # NoErr THEN Return(c1, r.err)
             ELSE IF Len(r.val) = 1 THEN [c1 EXCEPT !.d.ProjectID = r.val[1]]
             ELSE IF Len(r.val) = 0 THEN Return(c1, Err("NotFound"))
             ELSE Return([c1 EXCEPT !.calls = c1.calls \o ProjectNameCalls(pl, F, r.val)],
                         ErrAlts("ValidationError", ProjectNamesFor(pl, F, r.val)))

ValidateRegion(c, F) ==
    IF c.done THEN c
    ELSE LET r == GetRegions(Exch(F, "GetRegions", c.d.ProjectID, RegionCatalog))
             c1 == Called(c, r)
         IN  IF r.err # NoErr THEN Return(c1, r.err)
             ELSE IF ~(\E i \in 1..Len(r.val) : r.val[i] = c.d.RegionName)
             THEN Return(c1, Err("ValidationError"))
             ELSE c1

ValidateFlavor(c, F) ==
    IF c.done THEN c
    ELSE LET r == GetFlavorByName(
                      Exch(F, "GetFlavors", c.d.ProjectID, FlavorCatalog),
                      c.d.FlavorName)
             c1 == Called(c, r)
         IN  IF r.err # NoErr THEN Return(c1, r.err)
             ELSE [c1 EXCEPT !.d.FlavorID = r.val.ID]

\* d.ImageID holds the image name or id of the flags until it is resolved
ValidateImage(c, F) ==
    IF c.done THEN c
    ELSE LET r == GetImageByName(
                      Exch(F, "GetImages", c.d.ProjectID, ImageCatalog),
                      c.d.ImageID)
             c1 == Called(c, r)
         IN  IF r.err # NoErr THEN Return(c1, r.err)
             ELSE [c1 EXCEPT !.d.ImageID = r.val.ID]

ValidatePrivateNetwork(c, F) ==
    IF c.done THEN c
    ELSE IF c.d.PrivateNetworkName = "" THEN c
    ELSE LET r == GetPrivateNetworkByName(
                      Exch(F, "GetNetworksPrivate", c.d.ProjectID,
                           PrivateNetworkCatalog),
                      c.d.PrivateNetworkName)
             c1 == Called(c, r)
         IN  IF r.err # NoErr THEN Return(c1, r.err)
             ELSE LET c2 == [c1 EXCEPT !.d.NetworkIDs = Append(c.d.NetworkIDs, r.val.ID)]
                      p == GetPublicNetworkID(
                               Exch(F, "GetNetworksPublic", c.d.ProjectID,
                                    IF "EmptyPublicNetworks" \in F THEN <<>>
                                    ELSE PublicNetworkCatalog))
                      c3 == Called(c2, p)
                  IN  IF p.err # NoErr THEN Return(c3, p.err)
                      ELSE [c3 EXCEPT !.d.NetworkIDs = Append(c2.d.NetworkIDs, p.val)]

\* a user-supplied key name is kept; otherwise the name is generated from the
\* machine name and a random id (rand), dots replaced
SelectKeyPair(c, rand) ==
    IF c.done THEN c
    ELSE IF Len(c.d.KeyPairName) # 0 THEN c
    ELSE [c EXCEPT !.d.KeyPairName = sanitizeKeyPairName(c.d.MachineName \o "-" \o rand)]

\* PreCreateCheck: every step returns at its first error
PreCreateCheck(dr, pl, F, clientOK, rand) ==
    LET c0 == getClient(Ctx(dr), clientOK)
        c1 == ValidateBilling(c0)
        c2 == ValidateProject(c1, pl, F)
        c3 == ValidateRegion(c2, F)
        c4 == ValidateFlavor(c3, F)
        c5 == ValidateImage(c4, F)
        c6 == ValidatePrivateNetwork(c5, F)
        c7 == SelectKeyPair(c6, rand)
    IN  [c7 EXCEPT !.done = TRUE]

----------------------------------------------------------------------------
(* Create, Remove and the other lifecycle methods.  Their context carries   *)
(* the OVH side as well (field rem), which they change.                     *)

CtxR(dr, rem) ==
    [d |-> dr, err |-> NoErr, calls |-> <<>>, done |-> FALSE, rem |-> rem]

\* ids the OVH side gives to what it creates
NewKeyId(n) == "key-" \o Itoa(n)
NewInstanceId(n) == "i-" \o Itoa(n)

\* ensureSSHKey: the error of the lookup is dropped (sshKey, _ := ...), a key
\* found by name or id is adopted, otherwise a key pair is generated locally
\* and its public half uploaded
ensureSSHKey(c, F) ==
    IF c.done THEN c
    ELSE LET r == GetSshkeyByName(
                      Exch(F, "GetSshkeys", c.d.ProjectID, c.rem.keys),
                      c.d.KeyPairName)
             c1 == Called(c, r)
         IN  IF r.val # Nil THEN [c1 EXCEPT !.d.KeyPairID = r.val.ID]
             ELSE IF "LocalKeyGen" \in F THEN Return(c1, Err("LocalError"))
             ELSE LET key == [ID |-> NewKeyId(c.rem.nKey + 1), Name |-> c.d.KeyPairName]
                      k == CreateSshkey(
                               Exch(F, "CreateSshkey", c.d.ProjectID, key),
                               c.d.KeyPairName)
                      c2 == Called(c1, k)
                  IN  IF k.err # NoErr THEN Return(c2, k.err)
                      ELSE [c2 EXCEPT !.d.KeyPairID = k.val.ID,
                                      !.rem.keys = Append(@, key),
                                      !.rem.nKey = @ + 1]

\* the instance request of Create with the id recorded before the error check
RequestInstanceEager(c, F) ==
    IF c.done THEN c
    ELSE LET req == InstanceReq(c.d.MachineName, c.d.KeyPairID, c.d.FlavorID,
                                c.d.ImageID, c.d.RegionName, c.d.NetworkIDs,
                                c.d.BillingPeriod = "monthly")
             inst == [ID |-> NewInstanceId(c.rem.nInst + 1), Status |-> "BUILDING",
                      IPAddresses |-> <<>>]
             r == CreateInstance(
                      Exch(F, "CreateInstance", c.d.ProjectID, inst), req)
             c1 == [Called(c, r) EXCEPT !.d.InstanceID = inst.ID]
         IN  IF r.err # NoErr THEN Return(c1, r.err)
             ELSE [c1 EXCEPT !.rem.instances = @ \cup {inst.ID},
                             !.rem.nInst = @ + 1]

\* Create, "Create instance": post the request, record the id of the answer
RequestInstance(c, F) ==
    IF c.done THEN c
    ELSE LET req == InstanceReq(c.d.MachineName, c.d.KeyPairID, c.d.FlavorID,
                                c.d.ImageID, c.d.RegionName, c.d.NetworkIDs,
                                c.d.BillingPeriod = "monthly")
             inst == [ID |-> NewInstanceId(c.rem.nInst + 1), Status |-> "BUILDING",
                      IPAddresses |-> <<>>]
             r == CreateInstance(
                      Exch(F, "CreateInstance", c.d.ProjectID, inst), req)
             c1 == Called(c, r)
         IN  IF r.err # NoErr THEN Return(c1, r.err)
             ELSE [c1 EXCEPT !.d.InstanceID = r.val.ID,
                             !.rem.instances = @ \cup {inst.ID},
                             !.rem.nInst = @ + 1]

\* Create up to the wait: done means Create has returned
CreateBegin(dr, rem, F, clientOK) ==
    RequestInstance(ensureSSHKey(getClient(CtxR(dr, rem), clientOK), F), F)

\* number of attempts waitForInstanceStatus allows, and its sleep in seconds
MaxAttemptsNoDivision == statusTimeout
MaxAttempts == statusTimeout \div 4
WaitInterval == 4

\* the closure that ignores the ERROR status
PollVerdictNoError(instance, status) ==
    IF instance = Nil THEN [stop |-> TRUE, err |-> Err("panic")]
    ELSE IF instance.Status = status THEN [stop |-> TRUE, err |-> NoErr]
    ELSE [stop |-> FALSE, err |-> NoErr]

\* the closure of waitForInstanceStatus after its GetInstance: (stop, err).
\* GetInstance never returns an error, so a failed fetch leaves instance nil
\* and instance.Status is a nil dereference.
PollVerdict(instance, status) ==
    IF instance = Nil THEN [stop |-> TRUE, err |-> Err("panic")]
    ELSE IF instance.Status = "ERROR" THEN [stop |-> TRUE, err |-> Err("StateError")]
    ELSE IF instance.Status = status THEN [stop |-> TRUE, err |-> NoErr]
    ELSE [stop |-> FALSE, err |-> NoErr]

\* the result operand read before the wait has run
WaitResultStale(before, after) == before

\* return instance, WaitForSpecificOrError(...): the compiler evaluates the
\* call first and reads the named result after it, so the instance returned is
\* the one the last poll assigned
WaitResult(before, after) == after

\* the loop over the addresses without its break: the last public address
FirstPublicIPNoBreak(ips) ==
    LET pub == SelectSeq(ips, LAMBDA ip : ip.Type = "public")
    IN  IF Len(pub) = 0 THEN "" ELSE pub[Len(pub)].IP

\* first address of type "public", "" when there is none
FirstPublicIP(ips) ==
    LET i == FirstIdx(ips, LAMBDA ip : ip.Type = "public")
    IN  IF i = 0 THEN "" ELSE ips[i].IP

\* Create after the wait: "Save Ip address"; the address is cleared before
\* the instance is read
CreateFinish(c, instance, waitErr) ==
    IF waitErr # NoErr THEN Return(c, waitErr)
    ELSE LET c0 == [c EXCEPT !.d.IPAddress = ""]
         IN  IF instance = Nil THEN Return(c0, Err("panic"))
             ELSE LET ip == FirstPublicIP(instance.IPAddresses)
                      c1 == [c0 EXCEPT !.d.IPAddress = ip]
                  IN  IF ip = "" THEN Return(c1, Err("NoIP"))
                      ELSE Return(c1, NoErr)

\* state.State of a remote status
StateOf(status) ==
    CASE status = "ACTIVE" -> "Running"
      [] status = "PAUSED" -> "Paused"
      [] status = "SUSPENDED" -> "Saved"
      [] status = "SHUTOFF" -> "Stopped"
      [] status = "BUILDING" -> "Starting"
      [] status = "ERROR" -> "Error"
      [] OTHER -> "None"

\* GetState: resp is the exchange of its GetInstance; state is the value
\* returned beside the error
GetState(dr, clientOK, resp) ==
    LET c0 == getClient(Ctx(dr), clientOK)
        r == GetInstance(resp, dr.InstanceID)
        c1 == Called(c0, r)
    IN  IF c0.done THEN [c |-> c0, state |-> "None"]
        ELSE IF r.err # NoErr THEN [c |-> Return(c1, r.err), state |-> "None"]
        ELSE IF r.val = Nil THEN [c |-> Return(c1, Err("panic")), state |-> "None"]
        ELSE [c |-> Return(c1, NoErr), state |-> StateOf(r.val.Status)]

\* strings.Contains for a one-character needle
RECURSIVE ContainsChar(_, _)
ContainsChar(s, ch) ==
    IF Len(s) = 0 THEN FALSE
    ELSE SubSeq(s, 1, 1) = ch \/ ContainsChar(SubSeq(s, 2, Len(s)), ch)

\* net.JoinHostPort (go 1.20): only a host holding a colon is bracketed
JoinHostPort(host, port) ==
    IF ContainsChar(host, ":")
    THEN "[" \o host \o "]:" \o port
    ELSE host \o ":" \o port

\* GetURL without its test for an empty address
GetURLAlways(dr) == "tcp://" \o JoinHostPort(dr.IPAddress, DockerPort)

GetURL(dr) ==
    IF dr.IPAddress = "" THEN "" ELSE "tcp://" \o JoinHostPort(dr.IPAddress, DockerPort)

\* the exchange of a DELETE: 404 for what is not there
DeleteExch(F, name, projectID, present) ==
    IF name \in F THEN Fail(500)
    ELSE IF projectID \notin SeqRange(ProjectIds(ProjectCatalog)) \/ ~present
    THEN Fail(404)
    ELSE OK(Nil)

RemoveInstance(c, F) ==
    IF c.done THEN c
    ELSE IF c.d.InstanceID = "" THEN c
    ELSE LET r == DeleteInstance(
                      DeleteExch(F, "DeleteInstance", c.d.ProjectID,
                                 c.d.InstanceID \in c.rem.instances),
                      c.d.InstanceID)
             c1 == Called(c, r)
         IN  IF r.err # NoErr THEN Return(c1, r.err)
             ELSE [c1 EXCEPT !.rem.instances = @ \ {c.d.InstanceID}]

KeyPresent(rem, keyID) == \E i \in 1..Len(rem.keys) : rem.keys[i].ID = keyID
KeysWithout(keys, keyID) == SelectSeq(keys, LAMBDA k : k.ID # keyID)

RemoveKeyPair(c, F) ==
    IF c.done THEN c
    ELSE IF ~HasPrefix(c.d.KeyPairName, c.d.MachineName) THEN Return(c, NoErr)
    ELSE IF c.d.KeyPairID = "" THEN c
    ELSE LET r == DeleteSshkey(
                      DeleteExch(F, "DeleteSshkey", c.d.ProjectID,
                                 KeyPresent(c.rem, c.d.KeyPairID)),
                      c.d.KeyPairID)
             c1 == Called(c, r)
         IN  IF r.err # NoErr THEN Return(c1, r.err)
             ELSE [c1 EXCEPT !.rem.keys = KeysWithout(@, c.d.KeyPairID)]

Remove(dr, rem, F, clientOK) ==
    LET c == RemoveKeyPair(RemoveInstance(getClient(CtxR(dr, rem), clientOK), F), F)
    IN  [c EXCEPT !.done = TRUE]

Restart(dr, rem, F, clientOK) ==
    LET c0 == getClient(CtxR(dr, rem), clientOK)
        x == IF "RebootInstance" \in F THEN Fail(500)
             ELSE IF dr.InstanceID \notin rem.instances THEN Fail(404)
             ELSE OK(Nil)
        r == RebootInstance(x, dr.InstanceID, FALSE)
    IN  IF c0.done THEN c0
        ELSE Return(Called(c0, r), r.err)

\* Kill, Start, Stop: not possible on OVH Cloud
Stub(dr) == Return(Ctx(dr), Err("Unsupported"))

----------------------------------------------------------------------------
(* Inputs *)

MachineNames == {"web", "w.1"}
\* mcnutils.GenerateRandomID
RandomIDs == {"r1"}
\* the flags of one "machine create": a base command line
BaseFlags ==
    [ProjectName |-> "acme", RegionName |-> "GRA1", FlavorName |-> "b2-7",
     ImageName |-> "Ubuntu 20.04", PrivateNetworkName |-> "",
     KeyPairName |-> "", BillingPeriod |-> DefaultBillingPeriod]
\* every choice of private network and ssh key for machine "web", the ssh key
\* choices for machine "w.1", and each other flag changed alone
FlagsOf(machineName) ==
    IF machineName # "web"
    THEN {[BaseFlags EXCEPT !.KeyPairName = k] : k \in {"", "web-s"}}
    ELSE {[BaseFlags EXCEPT !.PrivateNetworkName = n, !.KeyPairName = k] :
             n \in {"", "priv"}, k \in {"", "web-s"}}
         \cup {[BaseFlags EXCEPT !.BillingPeriod = b] :
                  b \in {"monthly", "Hourly", "MONTHLY", ""}}
         \cup {[BaseFlags EXCEPT !.ProjectName = p] : p \in {"", "pr-2", "nope"}}
         \cup {[BaseFlags EXCEPT !.RegionName = "MARS"],
               [BaseFlags EXCEPT !.FlavorName = "f-1"],
               [BaseFlags EXCEPT !.ImageName = "nope"],
               [BaseFlags EXCEPT !.PrivateNetworkName = "42"],
               [BaseFlags EXCEPT !.PrivateNetworkName = "7"]}

\* statuses a poll of Create can see; every status other than ACTIVE and
\* ERROR is handled alike
PollStatuses == {"BUILDING", "SHUTOFF", "ACTIVE", "ERROR"}
AllStatuses ==
    {"BUILDING", "SHUTOFF", "ACTIVE", "ERROR", "PAUSED", "SUSPENDED", "REBOOT"}
IPLists ==
    {<<>>,
     <<[IP |-> "10.0.0.7", Type |-> "private"],
       [IP |-> "203.0.113.5", Type |-> "public"],
       [IP |-> "2001:db8::1", Type |-> "public"]>>,
     <<[IP |-> "2001:db8::1", Type |-> "public"],
       [IP |-> "203.0.113.5", Type |-> "public"]>>}

\* the exchange of GetInstance for the driver's instance
InstanceExch(rem, fail, instanceID, status, ips) ==
    IF fail THEN Fail(500)
    ELSE IF instanceID \notin rem.instances THEN Fail(404)
    ELSE OK([ID |-> instanceID, Status |-> status, IPAddresses |-> ips])

----------------------------------------------------------------------------
(* State *)

\* the Driver as plugin.RegisterDriver builds it, named by the host
NewDriver(machineName) ==
    [MachineName |-> machineName, IPAddress |-> "",
     ProjectName |-> "", FlavorName |-> "", RegionName |-> "",
     PrivateNetworkName |-> "", BillingPeriod |-> "",
     ProjectID |-> "", FlavorID |-> "", ImageID |-> "", InstanceID |-> "",
     KeyPairName |-> "", KeyPairID |-> "", NetworkIDs |-> <<>>,
     client |-> FALSE]

\* no wait running.  i: attempts made; instance: the closure's variable, from:
\* the attempt that assigned it, call: the GetInstance call of that attempt;
\* slept: seconds slept; firstActive / firstError: the first attempt that saw
\* that status (0: none); done, err, ret: the wait has returned, its error,
\* the instance it handed back
WaitIdle ==
    [i |-> 0, instance |-> Nil, from |-> 0, call |-> <<>>, slept |-> 0,
     firstActive |-> 0, firstError |-> 0, done |-> FALSE, err |-> NoErr,
     ret |-> Nil]

\* the operation last run: the error it returned, the remote calls it issued
\* (Create: those before its wait), the value returned beside the error
NoOp == [name |-> "none", err |-> NoErr, calls |-> <<>>, value |-> ""]
Op(name, c, value) == [name |-> name, err |-> c.err, calls |-> c.calls, value |-> value]

\* createOK: a Create has returned nil; removedOK: the operation last run is a
\* Remove that returned nil; secondRemove: it is a Remove, and the operation
\* before it was a Remove that returned nil
\* validated: the PreCreateCheck last run returned nil
NoHist ==
    [createOK |-> FALSE, removedOK |-> FALSE, secondRemove |-> FALSE,
     validated |-> FALSE]
\* the history after an operation that is neither Create nor Remove
Other(h) == [h EXCEPT !.removedOK = FALSE, !.secondRemove = FALSE]

LkIdle == [kind |-> "none", catalog |-> <<>>, value |-> "", result |-> Nil]

Init ==
    /\ d \in {NewDriver(m) : m \in MachineNames}
    /\ pc = "new"
    /\ remote = [keys |-> PreexistingKeys, instances |-> {}, nKey |-> 0, nInst |-> 0]
    /\ op = NoOp
    /\ wait = WaitIdle
    /\ hist = NoHist
    /\ lk = LkIdle

----------------------------------------------------------------------------
(* Actions: one per lifecycle method the host calls.  pc is "new" before    *)
(* the flags are set, "idle" between calls, "polling" inside Create's wait  *)
(* and "returned" when Create has come back from a wait.                    *)

\* SetConfigFromFlags stores the flags as they are; the image flag goes to
\* ImageID
SetConfigFromFlags(dr, flags) ==
    [dr EXCEPT !.ProjectName = flags.ProjectName,
               !.RegionName = flags.RegionName,
               !.FlavorName = flags.FlavorName,
               !.ImageID = flags.ImageName,
               !.PrivateNetworkName = flags.PrivateNetworkName,
               !.KeyPairName = flags.KeyPairName,
               !.BillingPeriod = flags.BillingPeriod]

\* the host configures a new driver, once
DoSetConfigFromFlags ==
    /\ pc = "new"
    /\ \E flags \in FlagsOf(d.MachineName) : d' = SetConfigFromFlags(d, flags)
    /\ pc' = "idle"
    /\ op' = [NoOp EXCEPT !.name = "SetConfigFromFlags"]
    /\ UNCHANGED <<remote, wait, hist, lk>>

\* whether NewAPI succeeds matters only while no client is kept
ClientChoices == IF d.client THEN {TRUE} ELSE BOOLEAN
\* the environment fails at most one kind of call
OneFault(calls) == {{}} \cup {{f} : f \in calls}

DoPreCreateCheck ==
    /\ pc = "idle"
    /\ Len(d.NetworkIDs) <= MaxNetworkIDs
    /\ \E pl \in ProjectLists, F \in OneFault(ValidateCalls),
          clientOK \in ClientChoices, rand \in RandomIDs :
         LET c == PreCreateCheck(d, pl, F, clientOK, rand)
         IN  /\ F \subseteq {"GetProjects", "GetProject"} \/ pl = ProjectCatalog
             /\ d' = c.d
             /\ op' = Op("PreCreateCheck", c, "")
             /\ hist' = [Other(hist) EXCEPT !.validated = (c.err = NoErr)]
    /\ UNCHANGED <<pc, remote, wait, lk>>

\* what the environment may fail during Create
CreateFaults ==
    OneFault({"GetSshkeys", "LocalKeyGen", "CreateSshkey", "CreateInstance"})
    \cup {{"GetSshkeys", "CreateSshkey"}, {"GetSshkeys", "CreateInstance"}}

\* Create from its entry to the start of the wait (or to its early return).
\* The host creates a machine whose pre-create check has passed and that has
\* no instance yet.
DoCreate ==
    /\ pc = "idle"
    /\ hist.validated
    /\ d.InstanceID = ""
    /\ \E F \in CreateFaults, clientOK \in ClientChoices :
         LET c == CreateBegin(d, remote, F, clientOK)
         IN  /\ c.rem.nKey <= MaxKeys
             /\ d' = c.d
             /\ remote' = c.rem
             /\ op' = Op("Create", c, "")
             /\ pc' = IF c.done THEN "idle" ELSE "polling"
    /\ hist' = Other(hist)
    /\ UNCHANGED <<wait, lk>>

\* One attempt of Create's wait: the closure runs once on the answer of the
\* OVH side, and WaitForSpecificOrError stops on an error, on stop, or when
\* the attempts are used up (it sleeps after an attempt that did not stop);
\* Create then runs to its return.
DoPoll ==
    /\ pc = "polling"
    /\ wait.i < MaxAttempts
    /\ \E fail \in BOOLEAN, status \in PollStatuses :
       \E ips \in (IF status = "ACTIVE" /\ ~fail THEN IPLists ELSE {<<>>}) :
         LET r == GetInstance(InstanceExch(remote, fail, d.InstanceID, status, ips),
                              d.InstanceID)
             v == PollVerdict(r.val, "ACTIVE")
             n == wait.i + 1
             stopped == v.err # NoErr \/ v.stop
             timedOut == ~stopped /\ n >= MaxAttempts
             werr == IF v.err # NoErr THEN v.err
                     ELSE IF timedOut THEN Err("Timeout") ELSE NoErr
             ret == WaitResult(Nil, r.val)
             saw(st) == r.val # Nil /\ r.val.Status = st
             w == [wait EXCEPT !.i = n, !.instance = r.val, !.from = n,
                     !.call = r.calls[1],
                     !.slept = IF stopped THEN @ ELSE @ + WaitInterval,
                     !.firstActive = IF @ = 0 /\ saw("ACTIVE") THEN n ELSE @,
                     !.firstError = IF @ = 0 /\ saw("ERROR") THEN n ELSE @]
             c == CreateFinish([CtxR(d, remote) EXCEPT !.calls = op.calls], ret, werr)
         IN  IF stopped \/ timedOut
             THEN /\ d' = c.d
                  /\ op' = Op("Create", c, "")
                  /\ pc' = "returned"
                  /\ wait' = [w EXCEPT !.done = TRUE, !.err = werr, !.ret = ret]
                  /\ hist' = [hist EXCEPT !.createOK = @ \/ c.err = NoErr]
             ELSE /\ wait' = w
                  /\ UNCHANGED <<d, op, pc, hist>>
    /\ UNCHANGED <<remote, lk>>

\* the host has Create's result; the wait's variables are gone
DoCreateReturn ==
    /\ pc = "returned"
    /\ pc' = "idle"
    /\ wait' = WaitIdle
    /\ UNCHANGED <<d, remote, op, hist, lk>>

DoGetState ==
    /\ pc = "idle"
    /\ \E status \in AllStatuses \cup {"fail"}, clientOK \in ClientChoices :
         LET r == GetState(d, clientOK,
                           InstanceExch(remote, status = "fail", d.InstanceID,
                                        status, <<>>))
         IN  /\ d' = r.c.d
             /\ op' = Op("GetState", r.c, r.state)
    /\ hist' = Other(hist)
    /\ UNCHANGED <<pc, remote, wait, lk>>

DoGetURL ==
    /\ pc = "idle"
    /\ op' = [NoOp EXCEPT !.name = "GetURL", !.value = GetURL(d)]
    /\ hist' = Other(hist)
    /\ UNCHANGED <<d, pc, remote, wait, lk>>

DoRemove ==
    /\ pc = "idle"
    /\ \E F \in SUBSET {"DeleteInstance", "DeleteSshkey"}, clientOK \in ClientChoices :
         LET c == Remove(d, remote, F, clientOK)
         IN  /\ d' = c.d
             /\ remote' = c.rem
             /\ op' = Op("Remove", c, "")
             /\ hist' = [hist EXCEPT !.removedOK = (c.err = NoErr),
                                     !.secondRemove = hist.removedOK]
    /\ UNCHANGED <<pc, wait, lk>>

DoRestart ==
    /\ pc = "idle"
    /\ \E F \in SUBSET {"RebootInstance"}, clientOK \in ClientChoices :
         LET c == Restart(d, remote, F, clientOK)
         IN  /\ d' = c.d
             /\ op' = Op("Restart", c, "")
    /\ hist' = Other(hist)
    /\ UNCHANGED <<pc, remote, wait, lk>>

\* Kill, Start and Stop
DoStub ==
    /\ pc = "idle"
    /\ \E name \in {"Kill", "Start", "Stop"} : op' = Op(name, Stub(d), "")
    /\ hist' = Other(hist)
    /\ UNCHANGED <<d, pc, remote, wait, lk>>

Next ==
    \/ DoSetConfigFromFlags
    \/ DoPreCreateCheck
    \/ DoCreate
    \/ DoPoll
    \/ DoCreateReturn
    \/ DoGetState
    \/ DoGetURL
    \/ DoRemove
    \/ DoRestart
    \/ DoStub

Spec == Init /\ [][Next]_vars

----------------------------------------------------------------------------
(* The name-or-id lookups of the API, applied to catalogs of every shape *)

LookupIds == {"a", "b", "c"}
\* a name can be the id of another entry
LookupNames == {"a", "b", "n"}
LookupValues == {"a", "b", "n", "42", "z"}
\* an entry of a catalog; Tag stands for the field only some kinds have
LookupEntries == [ID : LookupIds, Name : LookupNames, Tag : {0, 1}]

\* the catalogs with i more entries after seq, ids unique
RECURSIVE CatalogsFrom(_, _)
CatalogsFrom(seq, i) ==
    IF i = 0 THEN {seq}
    ELSE {seq} \cup
         UNION {CatalogsFrom(Append(seq, e), i - 1) :
                   e \in {x \in LookupEntries :
                             \A k \in 1..Len(seq) : seq[k].ID # x.ID}}
Catalogs == CatalogsFrom(<<>>, MaxCatalog)

\* the catalog as the list of each kind
AsProjects(catalog) ==
    [i \in 1..Len(catalog) |-> [ID |-> catalog[i].ID, Name |-> catalog[i].Name]]
AsLinuxOrNot(catalog) ==
    [i \in 1..Len(catalog) |->
        [ID |-> catalog[i].ID, Name |-> catalog[i].Name,
         OS |-> IF catalog[i].Tag = 1 THEN "linux" ELSE "windows"]]
AsSshkeys(catalog) ==
    [i \in 1..Len(catalog) |-> [ID |-> catalog[i].ID, Name |-> catalog[i].Name]]
AsNetworks(catalog) ==
    [i \in 1..Len(catalog) |->
        [ID |-> catalog[i].ID, Name |-> catalog[i].Name,
         VlanID |-> IF catalog[i].Tag = 1 THEN 42 ELSE 7]]

\* the exchange of a list call
ListExch(fail, body) == IF fail THEN Fail(500) ELSE OK(body)

InitLookup ==
    /\ d = NewDriver("web")
    /\ pc = "lookup"
    /\ remote = [keys |-> <<>>, instances |-> {}, nKey |-> 0, nInst |-> 0]
    /\ op = NoOp
    /\ wait = WaitIdle
    /\ hist = NoHist
    /\ lk \in {[kind |-> "none", catalog |-> c, value |-> v, result |-> Nil] :
                  c \in Catalogs, v \in LookupValues}

\* the lookup of kind has returned result
Looked(kind, result) == [lk EXCEPT !.kind = kind, !.result = result]

LookupProject ==
    /\ pc = "lookup" /\ lk.kind = "none"
    /\ \E F \in OneFault({"GetProjects", "GetProject"}) :
          lk' = Looked("project",
                       GetProjectByName(ExchProjects(AsProjects(lk.catalog), F),
                                        ExchProject(AsProjects(lk.catalog), F),
                                        lk.value))
    /\ UNCHANGED <<d, pc, remote, op, wait, hist>>

LookupFlavor ==
    /\ pc = "lookup" /\ lk.kind = "none"
    /\ \E fail \in BOOLEAN :
          lk' = Looked("flavor",
                       GetFlavorByName(ListExch(fail, AsLinuxOrNot(lk.catalog)),
                                       lk.value))
    /\ UNCHANGED <<d, pc, remote, op, wait, hist>>

LookupImage ==
    /\ pc = "lookup" /\ lk.kind = "none"
    /\ \E fail \in BOOLEAN :
          lk' = Looked("image",
                       GetImageByName(ListExch(fail, AsLinuxOrNot(lk.catalog)),
                                      lk.value))
    /\ UNCHANGED <<d, pc, remote, op, wait, hist>>

LookupSshkey ==
    /\ pc = "lookup" /\ lk.kind = "none"
    /\ \E fail \in BOOLEAN :
          lk' = Looked("sshkey",
                       GetSshkeyByName(ListExch(fail, AsSshkeys(lk.catalog)),
                                       lk.value))
    /\ UNCHANGED <<d, pc, remote, op, wait, hist>>

LookupPrivateNetwork ==
    /\ pc = "lookup" /\ lk.kind = "none"
    /\ \E fail \in BOOLEAN :
          lk' = Looked("network",
                       GetPrivateNetworkByName(ListExch(fail, AsNetworks(lk.catalog)),
                                               lk.value))
    /\ UNCHANGED <<d, pc, remote, op, wait, hist>>

NextLookup ==
    \/ LookupProject
    \/ LookupFlavor
    \/ LookupImage
    \/ LookupSshkey
    \/ LookupPrivateNetwork

SpecLookup == InitLookup /\ [][NextLookup]_vars

----------------------------------------------------------------------------
(* Properties of Create's wait *)

\* C1: when the first ACTIVE comes at poll k and no ERROR came before it, the
\* wait succeeds after exactly k polls (no poll follows the one that saw
\* ACTIVE) and the instance it hands back to Create is the one poll k
\* returned; the wait succeeds in no other way.
C1_PollingSuccess ==
    /\ pc = "polling" => wait.firstActive = 0
    /\ (pc = "returned" /\ wait.firstActive > 0) =>
          /\ wait.err = NoErr
          /\ wait.i = wait.firstActive
          /\ wait.from = wait.firstActive
          /\ wait.ret = wait.instance
          /\ wait.ret # Nil
          /\ wait.ret.Status = "ACTIVE"
          /\ wait.call = Call("GetInstance", d.InstanceID, 200)
    /\ (pc = "returned" /\ wait.err = NoErr) => wait.firstActive = wait.i

\* BUILDING, BUILDING, ACTIVE: the wait has returned the third poll's instance
C1_Witness ==
    /\ pc = "returned"
    /\ wait.firstActive = 3
    /\ wait.i = 3
    /\ wait.err = NoErr
    /\ wait.ret # Nil
    /\ wait.ret.Status = "ACTIVE"

\* C2: a poll that sees ERROR before any ACTIVE ends Create with an error on
\* that very poll: no poll follows it, whatever is left of the attempts.
C2_ErrorShortCircuit ==
    /\ pc = "polling" => wait.firstError = 0
    /\ (pc = "returned" /\ wait.firstError > 0) =>
          /\ wait.i = wait.firstError
          /\ wait.firstActive = 0
          /\ wait.err = Err("StateError")
          /\ op.name = "Create"
          /\ op.err = Err("StateError")
          /\ ~hist.createOK

\* BUILDING, ERROR: Create has failed on the second of its 50 polls
C2_Witness ==
    /\ pc = "returned"
    /\ wait.firstError = 2
    /\ wait.i = 2
    /\ op.err = Err("StateError")

\* C3: the wait makes at most 50 polls, 4 seconds apart, and has returned
\* once the 50th is made; when all 50 saw a status that is neither ACTIVE nor
\* ERROR, Create fails with the timeout error after 200 seconds.
C3_PollingBudget ==
    /\ wait.i <= 50
    /\ wait.i = 50 => wait.done
    /\ pc = "polling" => (wait.i < 50 /\ wait.slept = 4 * wait.i)
    /\ (pc = "returned" /\ wait.i = 50 /\ wait.instance # Nil
           /\ wait.firstActive = 0 /\ wait.firstError = 0) =>
          /\ wait.err = Err("Timeout")
          /\ op.err = Err("Timeout")
          /\ wait.slept = 200

\* 50 polls have seen BUILDING or SHUTOFF and Create has timed out
C3_Witness ==
    /\ pc = "returned"
    /\ wait.i = 50
    /\ wait.instance # Nil
    /\ wait.instance.Status = "BUILDING"
    /\ op.err = Err("Timeout")

----------------------------------------------------------------------------
(* Properties of the lifecycle *)

\* the remote calls of the operation last run
OpCalls == {op.calls[i] : i \in 1..Len(op.calls)}

\* C4: a delete answered 404 is a success, so a Remove that follows a Remove
\* that succeeded fails only when the OVH side fails a call for a reason
\* other than absence; a Remove whose calls were all answered 200 or 404
\* returns nil.
C4_DeleteIdempotence ==
    /\ (op.name = "Remove" /\ d.client /\ \A c \in OpCalls : c[3] \in {200, 404})
          => op.err = NoErr
    /\ (hist.secondRemove /\ op.err # NoErr) => \E c \in OpCalls : c[3] = 500
    /\ (hist.secondRemove /\ op.err = NoErr) =>
          \A c \in OpCalls : c[1] = "DeleteInstance" => c[3] = 404

\* the second of two Removes has had 404 for the instance and for the key and
\* has returned nil
C4_Witness ==
    /\ hist.secondRemove
    /\ op.err = NoErr
    /\ Call("DeleteInstance", d.InstanceID, 404) \in OpCalls
    /\ Call("DeleteSshkey", d.KeyPairID, 404) \in OpCalls

\* C5: after a PreCreateCheck that passed, NetworkIDs holds exactly the
\* private network's id followed by the public network's id when a private
\* network name was given, and nothing when none was; the instance request of
\* Create carries exactly these networks.
C5_NetworkAttachments ==
    LET expected == IF d.PrivateNetworkName = "" THEN <<>>
                    ELSE <<PrivateNetworkCatalog[1].ID, PublicNetworkCatalog[1].ID>>
    IN  /\ hist.validated => d.NetworkIDs = expected
        /\ op.name = "Create" =>
              \A c \in OpCalls : c[1] = "CreateInstance" =>
                 c[2].NetworkParams = [i \in 1..Len(expected) |-> [ID |-> expected[i]]]

\* C6 as stated: while no Create has returned nil, InstanceID is empty between
\* the calls of the host.
C6_EmptyUntilCreateSucceeds ==
    (pc # "polling" /\ ~hist.createOK) => d.InstanceID = ""

\* C6, amended: InstanceID is empty exactly until the instance request of a
\* Create has succeeded, and is from then on the id the OVH side answered,
\* whether or not that Create goes on to succeed; it is the id GetState,
\* Restart and Remove pass to the OVH side.
C6_EmptyUntilInstanceRequested ==
    /\ d.InstanceID = "" <=> remote.nInst = 0
    /\ d.InstanceID # "" => d.InstanceID = NewInstanceId(remote.nInst)
    /\ hist.createOK => d.InstanceID # ""
    /\ \A c \in OpCalls :
          /\ c[1] \in {"GetInstance", "DeleteInstance"} => c[2] = d.InstanceID
          /\ c[1] = "RebootInstance" => c[2][1] = d.InstanceID

\* a Create has failed in its wait and has left the id of its instance, which
\* the Remove that follows deletes
C6_Witness ==
    /\ ~hist.createOK
    /\ d.InstanceID # ""
    /\ op.name = "Remove"
    /\ Call("DeleteInstance", d.InstanceID, 200) \in OpCalls

\* C7: every ssh key that was there before the driver ran is still there:
\* Remove deletes none of them.
C7_PreexistingKeysKept ==
    \A i \in 1..Len(PreexistingKeys) : KeyPresent(remote, PreexistingKeys[i].ID)

\* a remote call that failed, a delete answered 404 apart
CallFailed(c) ==
    /\ c[3] # 200
    /\ ~(c[1] \in {"DeleteInstance", "DeleteSshkey"} /\ c[3] = 404)

\* C8: a remote call that fails is the last call of its operation, and the
\* operation returns the error of that call; so does a Create whose poll
\* fails.
C8_FailurePropagation ==
    /\ \A i \in 1..Len(op.calls) :
          CallFailed(op.calls[i]) =>
             (i = Len(op.calls) /\ op.err.kind = "RemoteError")
    /\ (pc = "returned" /\ wait.call[3] # 200) => op.err.kind = "RemoteError"

\* C9: PreCreateCheck passes its billing check exactly for "hourly" and
\* "monthly"; with any other billing period it fails before any remote call,
\* and ProjectID, FlavorID, ImageID and NetworkIDs stay as the flags left them.
C9_BillingValidator ==
    /\ (op.name = "PreCreateCheck" /\ d.BillingPeriod \in {"hourly", "monthly"})
          => op.err # Err("InvalidBillingPeriod")
    /\ d.BillingPeriod \notin {"hourly", "monthly"} =>
          /\ ~hist.validated
          /\ d.ProjectID = "" /\ d.FlavorID = "" /\ d.NetworkIDs = <<>>
          /\ pc # "new" => d.ImageID = BaseFlags.ImageName
          /\ op.name = "PreCreateCheck" =>
                /\ op.calls = <<>>
                /\ op.err = IF d.client THEN Err("InvalidBillingPeriod")
                            ELSE Err("ClientError")

\* PreCreateCheck has refused the billing period "Hourly"
C9_Witness ==
    /\ op.name = "PreCreateCheck"
    /\ d.BillingPeriod = "Hourly"
    /\ op.err = Err("InvalidBillingPeriod")
    /\ d.ProjectID = ""

----------------------------------------------------------------------------
(* Properties of the lookups *)

\* the lookup ran and its list call was answered
LookedUp(kinds) ==
    /\ lk.kind \in kinds
    /\ lk.result.calls[1][3] = 200
\* the entries of the list the lookup of this kind scans: flavors and images
\* that are not linux are passed over
Scanned ==
    IF lk.kind \in {"flavor", "image"}
    THEN SelectSeq(AsLinuxOrNot(lk.catalog), LAMBDA e : e.OS = "linux")
    ELSE AsSshkeys(lk.catalog)
\* position of the entry with this id in the catalog, 0 when there is none
IdIdx(catalog, id) == FirstIdx(catalog, LAMBDA e : e.ID = id)

\* C10 as stated: a value that is the id of an entry of the catalog makes
\* every lookup return that entry.
C10_IdFastPath ==
    (/\ LookedUp({"project", "flavor", "image", "sshkey"})
     /\ IdIdx(lk.catalog, lk.value) # 0
     /\ \A i \in 1..Len(lk.result.calls) : lk.result.calls[i][3] = 200)
       => (lk.result.val # Nil /\ lk.result.val.ID = lk.value)

\* C10, amended: GetProjectByName tries the value as an id first: when it is
\* the id of a project it issues GetProjects and GetProject(value) only and
\* returns what that call returns.  The flavor, image and ssh key lookups are
\* one pass over one list call: they return the first entry, among the linux
\* ones for flavors and images, whose id or name is the value; so the entry
\* whose id is the value is returned exactly when it is scanned and no entry
\* scanned before it is named by the value.
C10_IdFirstForProjectsOnly ==
    /\ (LookedUp({"project"}) /\ IdIdx(lk.catalog, lk.value) # 0) =>
          /\ Len(lk.result.calls) = 2
          /\ lk.result.calls[2][1] = "GetProject"
          /\ lk.result.calls[2][2] = lk.value
          /\ lk.result.err = NoErr =>
                lk.result.val = AsProjects(lk.catalog)[IdIdx(lk.catalog, lk.value)]
          /\ lk.result.err # NoErr => lk.result.calls[2][3] = 500
    /\ LookedUp({"flavor", "image", "sshkey"}) =>
          LET i == IdIdx(Scanned, lk.value)
              named == \E k \in 1..Len(Scanned) :
                          (i = 0 \/ k < i) /\ Scanned[k].Name = lk.value
          IN  /\ Len(lk.result.calls) = 1
              /\ (i # 0 /\ ~named) => lk.result.val = Scanned[i]
              /\ named =>
                    /\ lk.result.val # Nil
                    /\ lk.result.val.Name = lk.value
                    /\ lk.result.val.ID # lk.value
              /\ (i = 0 /\ ~named) =>
                    (lk.result.val = Nil /\ lk.result.err = Err("NotFound"))

\* the project whose id is the value was returned although the project before
\* it is named by the value
C10_Witness ==
    /\ LookedUp({"project"})
    /\ Len(lk.catalog) = 2
    /\ lk.catalog[1].Name = lk.value
    /\ lk.catalog[2].ID = lk.value
    /\ lk.result.err = NoErr
    /\ lk.result.val.ID = lk.value

\* every call of the lookup was answered
AllAnswered == \A i \in 1..Len(lk.result.calls) : lk.result.calls[i][3] = 200
\* no entry the lookup of this kind considers is matched by the value
NoMatch ==
    IF lk.kind = "network"
    THEN \A i \in 1..Len(lk.catalog) :
            ~NetworkMatches(AsNetworks(lk.catalog)[i], lk.value)
    ELSE \A i \in 1..Len(Scanned) :
            Scanned[i].ID # lk.value /\ Scanned[i].Name # lk.value
AllKinds == {"project", "flavor", "image", "sshkey", "network"}

\* C11 as stated: a lookup whose value matches no entry fails with NotFound,
\* and when the catalog is not empty the error lists at least one entry of
\* the catalog.
C11_NotFoundListsAlternatives ==
    (LookedUp(AllKinds) /\ AllAnswered /\ NoMatch) =>
       /\ lk.result.val = Nil
       /\ lk.result.err.kind = "NotFound"
       /\ Len(lk.catalog) > 0 =>
             /\ Len(lk.result.err.alts) >= 1
             /\ \A i \in 1..Len(lk.result.err.alts) :
                   \E k \in 1..Len(lk.catalog) :
                      lk.result.err.alts[i] = lk.catalog[k].Name

\* C11, amended: a lookup whose value matches no entry fails with NotFound
\* and returns no entity.  Only the private network lookup lists
\* alternatives: the names of all private networks, in catalog order.  The
\* errors of the project, flavor, image and ssh key lookups name none.
C11_NotFoundNamesNetworksOnly ==
    (LookedUp(AllKinds) /\ AllAnswered /\ NoMatch) =>
       /\ lk.result.val = Nil
       /\ lk.result.err.kind = "NotFound"
       /\ lk.kind = "network" =>
             lk.result.err.alts = [k \in 1..Len(lk.catalog) |-> lk.catalog[k].Name]
       /\ lk.kind # "network" => lk.result.err.alts = <<>>

\* the private network lookup has failed on a catalog of two networks and
\* lists both names
C11_Witness ==
    /\ LookedUp({"network"})
    /\ NoMatch
    /\ Len(lk.catalog) = 2
    /\ lk.result.err.kind = "NotFound"
    /\ Len(lk.result.err.alts) = 2

----------------------------------------------------------------------------
(* Properties of Create's result and of GetURL *)

\* C12: when the wait of Create has seen ACTIVE, Create stores the address of
\* the first entry of type "public" of the instance, in list order, and
\* returns nil; when the instance has no such entry Create fails and
\* IPAddress is empty.  IPAddress is not empty exactly when a Create has
\* returned nil.
C12_PublicIPExtraction ==
    /\ (pc = "returned" /\ wait.firstActive > 0) =>
          LET ips == wait.ret.IPAddresses
              public == {i \in 1..Len(ips) : ips[i].Type = "public"}
          IN  /\ public # {} =>
                    /\ op.err = NoErr
                    /\ hist.createOK
                    /\ \E i \in public :
                          /\ \A j \in public : i <= j
                          /\ d.IPAddress = ips[i].IP
              /\ public = {} =>
                    /\ op.err = Err("NoIP")
                    /\ ~hist.createOK
                    /\ d.IPAddress = ""
    /\ hist.createOK <=> d.IPAddress # ""

\* Create has stored the second address of the instance, the first public one
C12_Witness ==
    /\ pc = "returned"
    /\ wait.firstActive > 0
    /\ Len(wait.ret.IPAddresses) = 3
    /\ wait.ret.IPAddresses[1].Type = "private"
    /\ d.IPAddress = wait.ret.IPAddresses[2].IP
    /\ op.err = NoErr

\* C13 as stated: GetURL returns "" when no address is stored and otherwise
\* the text tcp://<stored IP>:2376.
C13_GetURLPlain ==
    op.name = "GetURL" =>
       op.value = IF d.IPAddress = "" THEN ""
                  ELSE "tcp://" \o d.IPAddress \o ":2376"

\* what GetURL has returned for the address the driver holds: "" without an
\* address, else tcp://host:2376 where host is the address, in square
\* brackets when it holds a colon
URLReturned ==
    /\ op.err = NoErr
    /\ op.calls = <<>>
    /\ d.IPAddress = "" => op.value = ""
    /\ d.IPAddress = "203.0.113.5" => op.value = "tcp://203.0.113.5:2376"
    /\ d.IPAddress = "2001:db8::1" => op.value = "tcp://[2001:db8::1]:2376"
    /\ d.IPAddress \in {"", "203.0.113.5", "2001:db8::1"}

\* C13, amended: GetURL returns "" and no error when no address is stored,
\* and otherwise tcp://host:2376 with host the stored address, put in square
\* brackets when it is an IPv6 address; after PreCreateCheck and a Create
\* whose polls saw BUILDING then ACTIVE with public address 203.0.113.5 it
\* returns tcp://203.0.113.5:2376.  GetURL changes no field of the driver and
\* nothing on the OVH side, and issues no remote call.
C13_GetURL ==
    /\ [](op.name = "GetURL" => URLReturned)
    /\ []((pc = "returned" /\ wait.i = 2 /\ wait.firstActive = 2
             /\ d.IPAddress = "203.0.113.5")
          => GetURL(d) = "tcp://203.0.113.5:2376")
    /\ [][op'.name = "GetURL" => (d' = d /\ remote' = remote)]_vars

\* GetURL has returned the URL of a machine whose Create succeeded
C13_Witness ==
    /\ op.name = "GetURL"
    /\ hist.createOK
    /\ d.IPAddress = "203.0.113.5"
    /\ op.value = "tcp://203.0.113.5:2376"

\* C14: once a PreCreateCheck has passed, no step changes ProjectID,
\* FlavorID, ImageID or NetworkIDs, and a PreCreateCheck run again issues no
\* remote call; once KeyPairID is set no step changes it; and GetState,
\* Restart or Remove that get 404 for the instance or the key return an
\* error.
C14_PopulatedOnce ==
    /\ [][(hist.validated =>
              /\ d'.ProjectID = d.ProjectID
              /\ d'.FlavorID = d.FlavorID
              /\ d'.ImageID = d.ImageID
              /\ d'.NetworkIDs = d.NetworkIDs
              /\ (op'.name = "PreCreateCheck" => op'.calls = <<>>))
           /\ (d.KeyPairID # "" => d'.KeyPairID = d.KeyPairID)]_vars
    /\ []((op.name \in {"GetState", "Restart", "Remove"}
             /\ \E c \in OpCalls : c[3] = 404) => op.err # NoErr)

\* the ssh keys on the OVH side that the driver uploaded
CreatedKeys ==
    {remote.keys[i].ID : i \in {k \in 1..Len(remote.keys) :
                                   HasPrefix(remote.keys[k].ID, "key-")}}

\* nothing the driver created exists on the OVH side
Clean == remote.instances = {} /\ CreatedKeys = {}
\* what the driver created and still exists is what its fields name
Recorded ==
    /\ remote.instances \subseteq {d.InstanceID}
    /\ CreatedKeys \subseteq {d.KeyPairID}

\* C15: a Create that starts with nothing of the driver on the OVH side
\* leaves, however it ends, every instance and key it created named by
\* InstanceID / KeyPairID; and a Remove that then returns nil has issued a
\* delete for each of them and leaves none.
C15_NoOrphans ==
    /\ [][(pc = "idle" /\ op'.name = "Create" /\ Clean) => Recorded']_vars
    /\ [][(pc = "polling" /\ Recorded) => Recorded']_vars
    /\ [][(pc = "idle" /\ op'.name = "Remove" /\ op'.err = NoErr /\ Recorded)
             => /\ Clean'
                /\ \A id \in remote.instances :
                      Call("DeleteInstance", id, 200) \in {op'.calls[i] : i \in 1..Len(op'.calls)}
                /\ \A id \in CreatedKeys :
                      Call("DeleteSshkey", id, 200) \in {op'.calls[i] : i \in 1..Len(op'.calls)}]_vars

====
